---- MODULE Spec2Model ----
(***************************************************************************)
(* ESG impact navigator: the portfolio-construction core.                  *)
(*                                                                         *)
(*   Spec        investment_portfolio_page from the sort of the scored     *)
(*               companies on: sorted(), then get_portfolio_recommendation *)
(*               (the sliding-window loop, one action per iteration, the   *)
(*               Newton analytics call included).                          *)
(*   SpecEnrich  investment_portfolio_page from the investment universe to *)
(*               the enriched companies: enrich_companies_data over the    *)
(*               YahooFinanceRepository (its cache, its getters), one      *)
(*               action per company, any upstream fetch possibly raising.  *)
(*   SpecCalls   one call of a pure function of the core on arguments      *)
(*               drawn from bounded sets: get_accepted_controversies_count,*)
(*               map_risk_level, get_preference_score.                     *)
(*   SpecApp     the Streamlit session: every run of app.py routes the     *)
(*               menu choice to a page; profile_page stores the survey     *)
(*               answers on submit, investment_portfolio_page reads them.  *)
(*   SpecCache   any sequence of get_esg_score, get_sector and get_news    *)
(*               lookups on one YahooFinanceRepository, Yahoo Finance's    *)
(*               data changing in between.                                 *)
(*                                                                         *)
(* Money-like numbers (returns, risks, risk ceilings) are Python floats in *)
(* the source; here they are integers in percent (0.1 -> 10), which keeps  *)
(* every comparison the code makes (<=, > 0, sort order).                  *)
(***************************************************************************)
EXTENDS Integers, Sequences, FiniteSets, TLC

\* ------------------------------------------------------------------ bounds
\* Most yf.Ticker objects one repository creates.
MaxTickerRequests == 3
\* Longest company list handed to the page's tail.
MaxCompanies == 3
\* Largest portfolio_size argument.
MaxPortfolioSize == 2
\* Most records in one response of the analytics service.
MaxRecords == 2

\* Longest investment universe handed to enrich_companies_data.
MaxUniverse == 3

\* Ticker of the k-th company of the investment universe (distinct symbols).
TickerNames == <<"AAA", "BBB", "CCC", "DDD", "EEE">>
\* Preference scores a company may carry after line 51.
Scores == {30, 60}
\* Expected returns, risks and weights the analytics service may report.
Returns == {0, 1, 2}
Risks == {10, 11}
WeightVectors(n) == {[k \in 1..n |-> k], [k \in 1..n |-> n + 1 - k]}
\* The values of risk_mapping (in percent).
RiskCeilings == {10, 15, 20}

VARIABLES
    enriched_companies,     \* the scored companies, in enrichment order
    sorted_companies,       \* sorted(enriched_companies, ..., reverse=True)
    portfolio_size,         \* argument of get_portfolio_recommendation
    risk_tolerance,         \* argument of get_portfolio_recommendation
    i,                      \* the loop variable of get_portfolio_recommendation
    pc,                     \* "sort" | "select" | "returned" | "raised" (Spec);
                            \* "enrich" | "enriched" | "score" | "raised" (SpecEnrich)
    exception,              \* the exception that left the call ("" when none)
    portfolios,             \* result["data"] of the window that returned (a local
                            \* that is rebound by every iteration and never read
                            \* after one that does not return: kept only then)
    recommended_portfolio,  \* the value get_portfolio_recommendation returned
    requests,               \* history: params["tickers"] of every GET, in order
    queried,                \* history: the offset i of every GET, in order
    window_feasible,        \* history: per GET, whether its response held a
                            \* record with risk <= ceiling and return > 0
    upstream,               \* what Yahoo Finance holds per ticker: yf.Ticker(t)
    cache,                  \* data_repo.cache: ticker -> cached stock
    initial_companies_data, \* the caller's list of company dicts, updated in place
    enrich_index,           \* companies the loop of enrich_companies_data has done
    enrich_return,          \* what enrich_companies_data returned (Pending before)
    lookup_raised,          \* history: a per-company lookup raised
    call,                   \* SpecCalls: the function called and its arguments
    call_result,            \* SpecCalls: the value it returned (Pending before)
    session_state,          \* SpecApp: st.session_state (answers, recommended_portfolio)
    choice,                 \* SpecApp: the menu entry selected in the latest run
    rendered,               \* SpecApp: the page function the latest run called
    ticker_requests,        \* SpecCache history: the ticker of every yf.Ticker(...)
                            \* created, in order
    found_data              \* SpecCache history: the tickers a lookup created a
                            \* yf.Ticker for and found non-empty sustainability

selectVars == <<enriched_companies, sorted_companies, portfolio_size, risk_tolerance,
                i, portfolios, recommended_portfolio, requests, queried,
                window_feasible>>
enrichVars == <<upstream, cache, initial_companies_data, enrich_index, enrich_return,
                lookup_raised>>
callVars == <<call, call_result>>
appVars == <<session_state, choice, rendered>>
cacheVars == <<ticker_requests, found_data>>
extraVars == <<callVars, appVars, cacheVars>>
vars == <<selectVars, enrichVars, extraVars, pc, exception>>

\* ----------------------------------------------------------- Python helpers
Min(a, b) == IF a <= b THEN a ELSE b
Max(a, b) == IF a >= b THEN a ELSE b

\* s[lo:hi] for 0 <= lo, with Python's clipping to the sequence's length.
PySlice(s, lo, hi) ==
    LET h == Min(Max(hi, 0), Len(s))
        l == Min(lo, Len(s))
    IN  IF l >= h THEN <<>> ELSE SubSeq(s, l + 1, h)

\* range(n): the indices 0 .. n-1, none when n <= 0.
PyRange(n) == 0 .. (n - 1)

\* Position (1-based) at which a key k goes into an index list ordered by
\* descending key, behind every element whose key is >= k: what a stable
\* sort with reverse=True does with equal keys.
RECURSIVE InsertDesc(_, _, _)
InsertDesc(perm, j, keys) ==
    IF perm = <<>> THEN <<j>>
    ELSE IF keys[Head(perm)] >= keys[j]
         THEN <<Head(perm)>> \o InsertDesc(Tail(perm), j, keys)
         ELSE <<j>> \o perm

RECURSIVE SortPermDesc(_, _)
SortPermDesc(keys, n) ==
    IF n = 0 THEN <<>> ELSE InsertDesc(SortPermDesc(keys, n - 1), n, keys)

\* A sort that puts a later element before earlier ones of the same key.
PySortedReverseUnstable(s, keys) ==
    LET n == Len(s)
        rev == [k \in 1..n |-> keys[n + 1 - k]]
        perm == SortPermDesc(rev, n)
    IN  [k \in 1..n |-> s[n + 1 - perm[k]]]

\* sorted(s, key=..., reverse=True), keys[k] being the key of s[k].
PySortedReverse(s, keys) ==
    LET perm == SortPermDesc(keys, Len(s))
    IN  [k \in 1..Len(s) |-> s[perm[k]]]

\* ",".join(tickers)
RECURSIVE Join(_)
Join(tickers) ==
    IF tickers = <<>> THEN ""
    ELSE IF Len(tickers) = 1 THEN tickers[1]
    ELSE tickers[1] \o "," \o Join(Tail(tickers))

\* ------------------------------------------------------- the analytics call
\* A record of the service: [expected_return, weight_1 .. weight_n, risk].
Records(n) ==
    {<<r>> \o w \o <<k>> : r \in Returns, w \in WeightVectors(n), k \in Risks}

RECURSIVE SeqsUpTo(_, _)
SeqsUpTo(S, n) ==
    IF n = 0 THEN {<<>>}
    ELSE LET shorter == SeqsUpTo(S, n - 1)
         IN  shorter \cup {Append(s, x) : s \in {t \in shorter : Len(t) = n - 1}, x \in S}

\* What result["data"] may be for a request of n tickers: zero or more
\* records, in any order.
Responses == [n \in 0..MaxPortfolioSize |-> SeqsUpTo(Records(n), MaxRecords)]

\* NewtonAnalyticsEngine.get_portfolio_data: the query string of the GET.
TickersParam(tickers) == Join(tickers)

\* --------------------------------------------- get_portfolio_recommendation
\* The tickers of companies[i : i + portfolio_size].
WindowCompanies(companies, off, size) == PySlice(companies, off, off + size)

WindowTickers(companies, off, size) ==
    LET w == WindowCompanies(companies, off, size)
    IN  [k \in 1..Len(w) |-> w[k].ticker]

\* The risk gate with an exclusive boundary.
FilterByRiskExclusive(ps, tol) == SelectSeq(ps, LAMBDA p : p[Len(p)] < tol)

\* [p for p in portfolios if p[-1] <= risk_tolerance]
FilterByRisk(ps, tol) == SelectSeq(ps, LAMBDA p : p[Len(p)] <= tol)

\* The sort of the candidates with ties resolved towards the later record.
SortByReturnUnstable(ps) == PySortedReverseUnstable(ps, [k \in 1..Len(ps) |-> ps[k][1]])

\* sorted(portfolios, key=lambda c: c[0], reverse=True)
SortByReturn(ps) == PySortedReverse(ps, [k \in 1..Len(ps) |-> ps[k][1]])

\* The return gate with zero let through.
HasNonNegativeReturn(sorted_portfolio) ==
    Len(sorted_portfolio) > 0 /\ sorted_portfolio[1][1] >= 0

\* len(sorted_portfolio) > 0 and sorted_portfolio[0][0] > 0
HasPositiveReturn(sorted_portfolio) ==
    Len(sorted_portfolio) > 0 /\ sorted_portfolio[1][1] > 0

\* The weights' slice one short.
ProportionsOneShort(target_portfolio, size) == PySlice(target_portfolio, 1, size)

\* target_portfolio[1:portfolio_size + 1]
Proportions(target_portfolio, size) == PySlice(target_portfolio, 1, size + 1)

\* The dict of lines 165-167.
MakePortfolio(tickers, target_portfolio, companies, off, size) ==
    [kind        |-> "portfolio",
     tickers     |-> tickers,
     proportions |-> Proportions(target_portfolio, size),
     risk        |-> target_portfolio[Len(target_portfolio)],
     return      |-> target_portfolio[1],
     companies   |-> WindowCompanies(companies, off, size)]

None == [kind |-> "None"]

\* The loop's range one too long.
WindowOffsetsOneMore(companies, size) == PyRange(Len(companies) - size + 2)

\* range(len(companies) - portfolio_size + 1)
WindowOffsets(companies, size) == PyRange(Len(companies) - size + 1)

\* History only: a record that passes both gates, stated on the raw response.
Feasible(p, tol) == p[Len(p)] <= tol /\ p[1] > 0
HasFeasible(ps, tol) == \E k \in 1..Len(ps) : Feasible(ps[k], tol)

\* ------------------------------------------------- YahooFinanceRepository
MAX_RISK_SCORE == 40

\* A DataFrame of yfinance: empty, or one esgScores column indexed by field.
EmptyFrame == [kind |-> "DataFrame", empty |-> TRUE]
Frame(env, soc, gov, contr) ==
    [kind |-> "DataFrame", empty |-> FALSE,
     esgScores |-> [environmentScore |-> env, socialScore |-> soc,
                    governanceScore |-> gov, highestControversy |-> contr]]

\* The raw ESG risk data Yahoo Finance may hold for a ticker.
Frames == {Frame(0, 12, 40, 0), Frame(12, 40, 0, 2), Frame(40, 0, 12, 3)}
\* The "sector" entry of stock.info, None when info has no such key.
Str(x) == [kind |-> "str", value |-> x]
Sectors == {Str("Technology"), None}

\* yf.Ticker(ticker): a stock object (truthy or not), its sustainability
\* frame and the sector of its info.
Stocks ==
    [truthy : {TRUE}, sustainability : Frames \cup {EmptyFrame}, sector : Sectors]
       \cup [truthy : {FALSE}, sustainability : {EmptyFrame}, sector : {None}]

\* Neither "not stock" nor "stock.sustainability.empty" (lines 54-59).
HasEsgData(stock) == stock.truthy /\ ~stock.sustainability.empty

\* x or y, for a number x.
PyOr(x, y) == IF x = 0 THEN y ELSE x

\* _parse_response: lines 42-45.
parse_response(response, field, default_value) ==
    IF response = None \/ response.empty
    THEN default_value
    ELSE PyOr(response.esgScores[field], default_value)

\* The cache after a lookup that stores whatever stock it created.
CacheAfterLookupAlways(c, t) ==
    [x \in DOMAIN c \cup {t} |-> IF x = t THEN upstream[t] ELSE c[x]]

\* The cache after a lookup of ticker t that got as far as line 61 / 78.
CacheAfterLookup(c, t) ==
    IF t \in DOMAIN c THEN c
    ELSE IF HasEsgData(upstream[t])
         THEN [x \in DOMAIN c \cup {t} |-> IF x = t THEN upstream[t] ELSE c[x]]
         ELSE c

\* get_esg_score: lines 47-62 (the value returned).
get_esg_score(c, t) ==
    IF t \in DOMAIN c THEN c[t].sustainability
    ELSE IF ~upstream[t].truthy THEN None
    ELSE IF upstream[t].sustainability.empty THEN None
    ELSE upstream[t].sustainability

\* get_sector: lines 64-79 (the value returned).
get_sector(c, t) ==
    IF t \in DOMAIN c THEN c[t].sector
    ELSE IF ~upstream[t].truthy THEN None
    ELSE IF upstream[t].sustainability.empty THEN None
    ELSE upstream[t].sector

\* get_controversies: lines 98-99.
get_controversies(c, t) == parse_response(get_esg_score(c, t), "highestControversy", 10)

\* The scores with 0 as the default raw risk.
get_e_score_default_zero(c, t) ==
    MAX_RISK_SCORE - parse_response(get_esg_score(c, t), "environmentScore", 0)

\* get_e_score, get_s_score, get_g_score: lines 103-115.
get_e_score(c, t) ==
    MAX_RISK_SCORE - parse_response(get_esg_score(c, t), "environmentScore", MAX_RISK_SCORE)

get_s_score(c, t) ==
    MAX_RISK_SCORE - parse_response(get_esg_score(c, t), "socialScore", MAX_RISK_SCORE)

get_g_score(c, t) ==
    MAX_RISK_SCORE - parse_response(get_esg_score(c, t), "governanceScore", MAX_RISK_SCORE)

\* ---------------------------------------------------- enrich_companies_data
List(l) == [kind |-> "list", items |-> l]

\* c.update({...}) of lines 176-182: the five lookups in the order the dict
\* display evaluates them, each seeing the cache the earlier ones left.
UpdatedCompany(company, c) ==
    LET t  == company.ticker
        c1 == CacheAfterLookup(c, t)
    IN  [ticker        |-> company.ticker,
         name          |-> company.name,
         e_score       |-> get_e_score(c, t),
         s_score       |-> get_s_score(c1, t),
         g_score       |-> get_g_score(c1, t),
         controversies |-> get_controversies(c1, t),
         sector        |-> get_sector(c1, t)]

\* The lookups of one company, 1 = get_e_score .. 5 = get_sector, that go to
\* Yahoo Finance and so may raise: the first one; the later score lookups
\* when the first left the ticker uncached; get_sector always (an uncached
\* ticker is fetched again, a cached one has its info fetched).
FetchingLookups(c, t) ==
    {1, 5} \cup (IF t \in DOMAIN CacheAfterLookup(c, t) THEN {} ELSE {2, 3, 4})

\* Values of variables a specification does not use.
Pending == [kind |-> "Pending"]
CallIdle ==
    /\ call = [fn |-> "none"]
    /\ call_result = Pending
AppIdle ==
    /\ session_state = [answers |-> None, recommended_portfolio |-> FALSE]
    /\ choice = ""
    /\ rendered = ""
CacheIdle ==
    /\ ticker_requests = <<>>
    /\ found_data = {}
ExtraIdle == CallIdle /\ AppIdle /\ CacheIdle

\* The select half of the page is not running.
SelectIdle ==
    /\ enriched_companies = <<>>
    /\ sorted_companies = <<>>
    /\ portfolio_size = 1
    /\ risk_tolerance = 10
    /\ i = 0
    /\ portfolios = <<>>
    /\ recommended_portfolio = None
    /\ requests = <<>>
    /\ queried = <<>>
    /\ window_feasible = <<>>

\* The enrichment half of the page is not running.
EnrichIdle ==
    /\ upstream = <<>>
    /\ cache = <<>>
    /\ initial_companies_data = <<>>
    /\ enrich_index = 0
    /\ enrich_return = Pending
    /\ lookup_raised = FALSE

Universe == {TickerNames[k] : k \in 1..MaxUniverse}

\* get_investment_universe returned n companies; the repository is new.
InitEnrich ==
    /\ SelectIdle
    /\ ExtraIdle
    /\ upstream \in [Universe -> Stocks]
    /\ cache = <<>>
    /\ \E n \in 0..MaxUniverse :
          initial_companies_data =
             [k \in 1..n |-> [ticker |-> TickerNames[k], name |-> TickerNames[k]]]
    /\ enrich_index = 0
    /\ enrich_return = Pending
    /\ lookup_raised = FALSE
    /\ pc = "enrich"
    /\ exception = ""

\* One iteration of the loop of lines 174-182 in which no lookup raises.
EnrichCompany ==
    /\ pc = "enrich"
    /\ enrich_index < Len(initial_companies_data)
    /\ LET k == enrich_index + 1
           company == initial_companies_data[k]
       IN  /\ initial_companies_data' =
                 [initial_companies_data EXCEPT ![k] = UpdatedCompany(company, cache)]
           /\ cache' = CacheAfterLookup(cache, company.ticker)
    /\ enrich_index' = enrich_index + 1
    /\ UNCHANGED <<upstream, enrich_return, lookup_raised, pc, exception>>
    /\ UNCHANGED selectVars
    /\ UNCHANGED extraVars

\* One iteration in which a lookup raises: the except of lines 184-185
\* prints the exception and the function falls off its end, returning None.
EnrichCompanyRaises ==
    /\ pc = "enrich"
    /\ enrich_index < Len(initial_companies_data)
    /\ LET t == initial_companies_data[enrich_index + 1].ticker
       IN  \E failing \in FetchingLookups(cache, t) :
              cache' = IF failing = 1 THEN cache ELSE CacheAfterLookup(cache, t)
    /\ lookup_raised' = TRUE
    /\ enrich_return' = None
    /\ pc' = "enriched"
    /\ UNCHANGED <<upstream, initial_companies_data, enrich_index, exception>>
    /\ UNCHANGED selectVars
    /\ UNCHANGED extraVars

\* The loop is over: return initial_companies_data (line 183).
EnrichReturns ==
    /\ pc = "enrich"
    /\ enrich_index = Len(initial_companies_data)
    /\ enrich_return' = List(initial_companies_data)
    /\ pc' = "enriched"
    /\ UNCHANGED <<upstream, cache, initial_companies_data, enrich_index, lookup_raised,
                   exception>>
    /\ UNCHANGED selectVars
    /\ UNCHANGED extraVars

\* investment_portfolio_page, line 49: "for c in enriched_companies" raises
\* TypeError on None, and goes on to the scoring on a list.
PageIterates ==
    /\ pc = "enriched"
    /\ IF enrich_return = None
       THEN pc' = "raised" /\ exception' = "TypeError"
       ELSE pc' = "score" /\ UNCHANGED exception
    /\ UNCHANGED enrichVars
    /\ UNCHANGED extraVars
    /\ UNCHANGED selectVars

NextEnrich == EnrichCompany \/ EnrichCompanyRaises \/ EnrichReturns \/ PageIterates

SpecEnrich == InitEnrich /\ [][NextEnrich]_vars

\* ------------------------------------------------------------ Python values
PyInt(n) == [kind |-> "int", value |-> n]
PyBool(b) == [kind |-> "bool", value |-> b]
\* A float, held as twice its value (2.5 is HalfFloat(5), 3.0 is HalfFloat(6)).
HalfFloat(t) == [kind |-> "float", twice |-> t]
\* math.inf
Inf == [kind |-> "float", inf |-> TRUE]

\* x == n for an int literal n (what a literal pattern of match tests):
\* ints, bools and floats compare by numeric value, anything else is unequal.
PyEqualsInt(x, n) ==
    CASE x.kind = "int"   -> x.value = n
      [] x.kind = "bool"  -> (IF x.value THEN 1 ELSE 0) = n
      [] x.kind = "float" -> "twice" \in DOMAIN x /\ x.twice = 2 * n
      [] OTHER            -> FALSE

\* How a call ends: a returned value, or an exception with its message.
Returns_(v) == [kind |-> "return", value |-> v]
Raises(e, msg) == [kind |-> "raise", exception |-> e, message |-> msg]

\* ------------------------------------------ get_accepted_controversies_count
\* The table with the answers 4 and 5 swapped.
get_accepted_controversies_count_swapped(controversy_threshold) ==
    CASE PyEqualsInt(controversy_threshold, 1) \/ PyEqualsInt(controversy_threshold, 2)
            -> Returns_(Inf)
      [] PyEqualsInt(controversy_threshold, 3) -> Returns_(PyInt(3))
      [] PyEqualsInt(controversy_threshold, 4) -> Returns_(PyInt(1))
      [] PyEqualsInt(controversy_threshold, 5) -> Returns_(PyInt(2))
      [] OTHER -> Raises("ValueError", [value |-> controversy_threshold])

\* Lines 188-199: the match statement, case by case.
get_accepted_controversies_count(controversy_threshold) ==
    CASE PyEqualsInt(controversy_threshold, 1) \/ PyEqualsInt(controversy_threshold, 2)
            -> Returns_(Inf)
      [] PyEqualsInt(controversy_threshold, 3) -> Returns_(PyInt(3))
      [] PyEqualsInt(controversy_threshold, 4) -> Returns_(PyInt(2))
      [] PyEqualsInt(controversy_threshold, 5) -> Returns_(PyInt(1))
      [] OTHER -> Raises("ValueError", [value |-> controversy_threshold])

\* The arguments tried: integers around the scale, floats (whole and not),
\* bools, strings and None.
ThresholdArgs ==
    {PyInt(n) : n \in -2..8} \cup {HalfFloat(t) : t \in 0..12}
       \cup {PyBool(TRUE), PyBool(FALSE), Str("3"), Str("high"), Str(""), None}

\* ------------------------------------------------------------ map_risk_level
\* A str is the sequence of its characters.
UpperCase == <<"A", "B", "C", "D", "E", "F", "G", "H", "I", "J", "K", "L", "M",
               "N", "O", "P", "Q", "R", "S", "T", "U", "V", "W", "X", "Y", "Z">>
LowerCase == <<"a", "b", "c", "d", "e", "f", "g", "h", "i", "j", "k", "l", "m",
               "n", "o", "p", "q", "r", "s", "t", "u", "v", "w", "x", "y", "z">>

\* str.lower(): every cased character to its lower case, the others kept.
PyLowerChar(ch) ==
    IF \E k \in 1..Len(UpperCase) : UpperCase[k] = ch
    THEN LowerCase[CHOOSE k \in 1..Len(UpperCase) : UpperCase[k] = ch]
    ELSE ch
PyLower(str) == [k \in 1..Len(str) |-> PyLowerChar(str[k])]

\* risk_mapping (lines 129-133), in insertion order, the values in percent.
risk_mapping ==
    << [key |-> <<"l", "o", "w">>, value |-> 10],
       [key |-> <<"m", "o", "d", "e", "r", "a", "t", "e">>, value |-> 15],
       [key |-> <<"h", "i", "g", "h">>, value |-> 20] >>

\* key in d, d[key] and list(d.keys()) for a dict held as its items in order.
DictHas(d, key) == \E k \in 1..Len(d) : d[k].key = key
DictGet(d, key) == d[CHOOSE k \in 1..Len(d) : d[k].key = key].value
DictKeys(d) == [k \in 1..Len(d) |-> d[k].key]

\* The lookup without lower().
map_risk_level_case_sensitive(risk_level) ==
    IF DictHas(risk_mapping, risk_level)
    THEN Returns_(DictGet(risk_mapping, risk_level))
    ELSE Raises("ValueError", [value |-> risk_level, options |-> DictKeys(risk_mapping)])

\* Lines 136-139.
map_risk_level(risk_level) ==
    IF DictHas(risk_mapping, PyLower(risk_level))
    THEN Returns_(DictGet(risk_mapping, PyLower(risk_level)))
    ELSE Raises("ValueError", [value |-> risk_level, options |-> DictKeys(risk_mapping)])

\* Every casing of a lower-case word.
PyUpperChar(ch) ==
    IF \E k \in 1..Len(LowerCase) : LowerCase[k] = ch
    THEN UpperCase[CHOOSE k \in 1..Len(LowerCase) : LowerCase[k] = ch]
    ELSE ch
RECURSIVE Casings(_)
Casings(word) ==
    IF word = <<>> THEN {<<>>}
    ELSE {<<c>> \o rest : c \in {word[1], PyUpperChar(word[1])}, rest \in Casings(Tail(word))}

\* The strings tried: every casing of the three levels, and strings that
\* are none of them (empty, a prefix, a padded one, a digit in place of a
\* letter, another word).
RiskLevelArgs ==
    UNION {Casings(risk_mapping[k].key) : k \in 1..Len(risk_mapping)}
       \cup { <<>>, <<"l", "o">>, <<"L", "o", "w", " ">>, <<" ", "l", "o", "w">>,
              <<"l", "0", "w">>, <<"l", "o", "w", "s">>, <<"m", "e", "d", "i", "u", "m">>,
              <<"H", "I", "G">>, <<"n", "o", "n", "e">>, <<"1", "0">> }

\* ------------------------------------------------------ get_preference_score
\* The sum of the sub-scores, the weights ignored.
get_preference_score_unweighted(company, survey_answers) ==
    IF \E key \in {"e_score", "s_score", "g_score"} : key \notin DOMAIN company
    THEN Raises("KeyError",
                CHOOSE key \in {"e_score", "s_score", "g_score"} : key \notin DOMAIN company)
    ELSE Returns_(company.e_score + company.s_score + company.g_score)

\* Lines 203-215: the weights, then the scores (the first missing key raises
\* KeyError), then the sum of the three products.
get_preference_score(company, survey_answers) ==
    LET weights == <<survey_answers.USER_E_WEIGHT, survey_answers.USER_S_WEIGHT,
                     survey_answers.USER_G_WEIGHT>>
        keys == <<"e_score", "s_score", "g_score">>
        missing == {k \in 1..3 : keys[k] \notin DOMAIN company}
    IN  IF missing # {}
        THEN Raises("KeyError", keys[CHOOSE k \in missing : \A j \in missing : k <= j])
        ELSE LET scores == <<company.e_score, company.s_score, company.g_score>>
             IN  Returns_(scores[1] * weights[1] + scores[2] * weights[2]
                             + scores[3] * weights[3])

\* The sub-scores and weights tried.
ScoreValues == {0, 10, 40}
SurveyScale == 1..5

\* A company dict with any of the three sub-scores present.
CompanyArgs ==
    LET base == [ticker |-> "AAA", name |-> "AAA"]
        With(c, key, vals) ==
            {c} \cup {[k \in DOMAIN c \cup {key} |-> IF k = key THEN v ELSE c[k]] : v \in vals}
    IN  UNION {UNION {With(c2, "g_score", ScoreValues) : c2 \in With(c1, "s_score", ScoreValues)}
                 : c1 \in With(base, "e_score", ScoreValues)}

WeightArgs ==
    [USER_E_WEIGHT : SurveyScale, USER_S_WEIGHT : SurveyScale, USER_G_WEIGHT : SurveyScale]

\* ------------------------------------------------------------ SpecCalls
InitCalls ==
    /\ SelectIdle
    /\ EnrichIdle
    /\ AppIdle
    /\ CacheIdle
    /\ \/ \E x \in ThresholdArgs :
             call = [fn |-> "get_accepted_controversies_count", controversy_threshold |-> x]
       \/ \E x \in RiskLevelArgs :
             call = [fn |-> "map_risk_level", risk_level |-> x]
       \/ \E c \in CompanyArgs, a \in WeightArgs :
             call = [fn |-> "get_preference_score", company |-> c, survey_answers |-> a]
    /\ call_result = Pending
    /\ pc = "call"
    /\ exception = ""

\* The call ends with the outcome: a value handed back, or an exception.
Finish(outcome) ==
    /\ call_result' = outcome
    /\ pc' = IF outcome.kind = "return" THEN "returned" ELSE "raised"
    /\ exception' = IF outcome.kind = "return" THEN "" ELSE outcome.exception
    /\ UNCHANGED call
    /\ UNCHANGED <<appVars, cacheVars>>
    /\ UNCHANGED selectVars
    /\ UNCHANGED enrichVars

CallAcceptedControversiesCount ==
    /\ pc = "call"
    /\ call.fn = "get_accepted_controversies_count"
    /\ Finish(get_accepted_controversies_count(call.controversy_threshold))

CallMapRiskLevel ==
    /\ pc = "call"
    /\ call.fn = "map_risk_level"
    /\ Finish(map_risk_level(call.risk_level))

CallPreferenceScore ==
    /\ pc = "call"
    /\ call.fn = "get_preference_score"
    /\ Finish(get_preference_score(call.company, call.survey_answers))

NextCalls == CallAcceptedControversiesCount \/ CallMapRiskLevel \/ CallPreferenceScore

SpecCalls == InitCalls /\ [][NextCalls]_vars

\* ------------------------------------------------------------ profile_page
\* The keys of the survey answers (data.survey_constants; the session state
\* quoted in app.py, lines 25-30, shows them).
USER_RISK_TOLERANCE == "USER_RISK_TOLERANCE"
USER_CONTROVERSY_THRESHOLD == "USER_CONTROVERSY_THRESHOLD"
USER_SECTORS == "USER_SECTORS"

\* risk_options (line 35), each a str.
risk_options ==
    << <<"L", "o", "w">>, <<"M", "o", "d", "e", "r", "a", "t", "e">>, <<"H", "i", "g", "h">> >>

\* survey_options (lines 42-48).
survey_options ==
    <<"Strongly disagree", "Disagree", "Neutral", "Agree", "Strongly agree">>

\* The keys of questions (lines 51-60), in order.
question_keys ==
    <<"USER_ESG_AWARENESS_RATE", "USER_IMPACT_INVESTMENT_RATE", "USER_E_WEIGHT",
      "USER_S_WEIGHT", "USER_G_WEIGHT", USER_CONTROVERSY_THRESHOLD,
      "USER_GREEN_INDUSTRY_THRESHOLD", "USER_ESG_SCORE_THRESHOLD">>

Range(seq) == {seq[k] : k \in 1..Len(seq)}

\* list.index(v): the 0-based position of the first element equal to v.
ListIndex(list, v) ==
    (CHOOSE k \in 1..Len(list) : list[k] = v /\ \A j \in 1..(k - 1) : list[j] # v) - 1

\* The slider's option kept as its 0-based index.
SliderValueZeroBased(v) == PyInt(ListIndex(survey_options, v))

\* survey_options.index(v) + 1 (line 77).
SliderValue(v) == PyInt(ListIndex(survey_options, v) + 1)

\* The answers dict after the loop of lines 74-77: the sliders' options
\* mapped to numbers, the risk tolerance and the sectors left as they are.
ConvertedAnswers(risk, sliders, sectors) ==
    [k \in {USER_RISK_TOLERANCE, USER_SECTORS} \cup Range(question_keys) |->
        IF k = USER_RISK_TOLERANCE THEN risk
        ELSE IF k = USER_SECTORS THEN sectors
        ELSE SliderValue(sliders[k])]

\* What the widgets of the form may hold when a run reads them: any risk
\* option, any option of the controversy slider, the other sliders moved
\* together, some selections of sectors, a name.
SliderInputs ==
    {[k \in Range(question_keys) |->
         IF k = USER_CONTROVERSY_THRESHOLD THEN t ELSE o]
        : t \in Range(survey_options), o \in Range(survey_options)}
SectorInputs == {<<>>, <<"Technology">>, <<"Real Estate", "Energy">>}
NameInputs == {"", "hector"}

\* ------------------------------------------------------------------ app.py
\* menu (lines 33-38), in order.
menu ==
    << [key |-> "Profile", value |-> "profile_page"],
       [key |-> "Investment portfolio", value |-> "investment_portfolio_page"],
       [key |-> "News", value |-> "news_page"],
       [key |-> "AI", value |-> "show_forecast_page"] >>

\* "answers" in st.session_state
HasAnswers(state) == state.answers # None

\* The routing with the redirect of the submitted profile left out.
PageForNoRedirect(selected, state) == DictGet(menu, selected)

\* Lines 44-48: the page function a run calls.
PageFor(selected, state) ==
    IF selected = "Profile" /\ HasAnswers(state)
    THEN "investment_portfolio_page"
    ELSE DictGet(menu, selected)

InitApp ==
    /\ SelectIdle
    /\ EnrichIdle
    /\ CallIdle
    /\ CacheIdle
    /\ session_state = [answers |-> None, recommended_portfolio |-> FALSE]
    /\ choice = ""
    /\ rendered = ""
    /\ pc = "app"
    /\ exception = ""

\* A run that calls profile_page: the form is drawn from the widgets' values
\* and, when the run was caused by the submit button, the converted answers
\* are stored (lines 73-80).
RunProfilePage ==
    /\ \E selected \in Range(DictKeys(menu)) :
          /\ PageFor(selected, session_state) = "profile_page"
          /\ choice' = selected
    /\ rendered' = "profile_page"
    /\ \E submitted \in BOOLEAN, name \in NameInputs, risk \in Range(risk_options),
          sliders \in SliderInputs, sectors \in SectorInputs :
          session_state' =
             IF submitted
             THEN [session_state EXCEPT
                      !.answers = [name |-> name,
                                   survey_answers |-> ConvertedAnswers(risk, sliders, sectors)]]
             ELSE session_state
    /\ exception' = ""
    /\ UNCHANGED <<pc, callVars, cacheVars, selectVars, enrichVars>>

\* A run that calls investment_portfolio_page (lines 31-84). The universe,
\* the enrichment and the selection are the subject of SpecEnrich and Spec:
\* here they are their outcome, a fault of a collaborator or a result.
RunInvestmentPage ==
    /\ \E selected \in Range(DictKeys(menu)) :
          /\ PageFor(selected, session_state) = "investment_portfolio_page"
          /\ choice' = selected
    /\ rendered' = "investment_portfolio_page"
    /\ IF ~HasAnswers(session_state)
       THEN exception' = "" /\ UNCHANGED session_state
       ELSE LET answers == session_state.answers.survey_answers
                count == get_accepted_controversies_count(answers[USER_CONTROVERSY_THRESHOLD])
                ceiling == map_risk_level(answers[USER_RISK_TOLERANCE])
            IN  IF count.kind = "raise"
                THEN exception' = count.exception /\ UNCHANGED session_state
                ELSE \/ /\ exception' \in {"TypeError", "HTTPError"}
                        /\ UNCHANGED session_state
                     \/ /\ ceiling.kind = "raise"
                        /\ exception' = ceiling.exception
                        /\ UNCHANGED session_state
                     \/ /\ ceiling.kind = "return"
                        /\ exception' = ""
                        /\ \E found \in BOOLEAN :
                              session_state' =
                                 IF found
                                 THEN [session_state EXCEPT !.recommended_portfolio = TRUE]
                                 ELSE session_state
    /\ UNCHANGED <<pc, callVars, cacheVars, selectVars, enrichVars>>

\* A run that calls news_page or show_forecast_page: neither writes the
\* session state; their fetches may fail.
RunOtherPage ==
    /\ \E selected \in Range(DictKeys(menu)) :
          /\ PageFor(selected, session_state) \in {"news_page", "show_forecast_page"}
          /\ choice' = selected
          /\ rendered' = PageFor(selected, session_state)
    /\ exception' \in {"", "HTTPError"}
    /\ UNCHANGED <<session_state, pc, callVars, cacheVars, selectVars, enrichVars>>

NextApp == RunProfilePage \/ RunInvestmentPage \/ RunOtherPage

SpecApp == InitApp /\ [][NextApp]_vars

\* ------------------------------------------- YahooFinanceRepository: cache
\* The tickers looked up.
CacheUniverse == {TickerNames[1], TickerNames[2]}

\* yf.Ticker(ticker) with the result of its get_news().
Stock(truthy, sustainability, sector, news) ==
    [truthy |-> truthy, sustainability |-> sustainability, sector |-> sector,
     news |-> List(news)]

\* What Yahoo Finance may hold for a ticker at some time: two stocks with
\* ESG data, one with an empty sustainability frame, one falsy.
CacheStocks ==
    { Stock(TRUE, Frame(12, 40, 0, 2), Str("Technology"), <<"headline">>),
      Stock(TRUE, Frame(40, 0, 12, 3), None, <<>>),
      Stock(TRUE, EmptyFrame, Str("Technology"), <<"headline">>),
      Stock(FALSE, EmptyFrame, None, <<>>) }

\* get_news: lines 81-96 (the value returned).
get_news(c, t) ==
    IF t \in DOMAIN c THEN c[t].news
    ELSE IF ~upstream[t].truthy THEN None
    ELSE IF upstream[t].sustainability.empty THEN None
    ELSE upstream[t].news

\* A new repository (line 156), Yahoo Finance holding something per ticker.
InitCache ==
    /\ SelectIdle
    /\ AppIdle
    /\ upstream \in [CacheUniverse -> CacheStocks]
    /\ cache = <<>>
    /\ initial_companies_data = <<>>
    /\ enrich_index = 0
    /\ enrich_return = Pending
    /\ lookup_raised = FALSE
    /\ call = [fn |-> "none"]
    /\ call_result = Pending
    /\ ticker_requests = <<>>
    /\ found_data = {}
    /\ pc = "repository"
    /\ exception = ""

\* One lookup of ticker t by getter fn, which returns value on success. A
\* cached ticker takes the branch of lines 49-51 / 66-68 / 83-85; any other
\* has a yf.Ticker created (lines 53 / 70 / 87), whose fetch of the
\* sustainability data may raise, as may the info and the news of a cached
\* stock.
Lookup(fn, t, value, may_raise_cached) ==
    /\ t \in DOMAIN cache \/ Len(ticker_requests) < MaxTickerRequests
    /\ call' = [fn |-> fn, ticker |-> t, cached |-> t \in DOMAIN cache]
    /\ IF t \in DOMAIN cache
       THEN /\ UNCHANGED <<cache, ticker_requests, found_data>>
            /\ \/ /\ call_result' = Returns_(value)
                  /\ exception' = ""
               \/ /\ may_raise_cached
                  /\ call_result' = Raises("Exception", "")
                  /\ exception' = "Exception"
       ELSE /\ ticker_requests' = Append(ticker_requests, t)
            /\ \/ /\ cache' = CacheAfterLookup(cache, t)
                  /\ found_data' =
                        IF upstream[t].truthy /\ ~upstream[t].sustainability.empty
                        THEN found_data \cup {t} ELSE found_data
                  /\ call_result' = Returns_(value)
                  /\ exception' = ""
               \/ /\ call_result' = Raises("Exception", "")
                  /\ exception' = "Exception"
                  /\ UNCHANGED <<cache, found_data>>
    /\ UNCHANGED <<upstream, initial_companies_data, enrich_index, enrich_return,
                   lookup_raised, pc, appVars, selectVars>>

LookupEsgScore ==
    \E t \in CacheUniverse : Lookup("get_esg_score", t, get_esg_score(cache, t), FALSE)

LookupSector ==
    \E t \in CacheUniverse : Lookup("get_sector", t, get_sector(cache, t), TRUE)

LookupNews ==
    \E t \in CacheUniverse : Lookup("get_news", t, get_news(cache, t), TRUE)

\* Yahoo Finance's data for a ticker changes between two lookups.
UpstreamChanges ==
    /\ \E t \in CacheUniverse, stock \in CacheStocks :
          /\ stock # upstream[t]
          /\ upstream' = [upstream EXCEPT ![t] = stock]
    /\ UNCHANGED <<cache, initial_companies_data, enrich_index, enrich_return,
                   lookup_raised, pc, exception, extraVars, selectVars>>

NextCache == LookupEsgScore \/ LookupSector \/ LookupNews \/ UpstreamChanges

SpecCache == InitCache /\ [][NextCache]_vars

\* ------------------------------------------------------------------ actions
CompanyLists ==
    UNION {[1..n -> Scores] : n \in 0..MaxCompanies}

Init ==
    /\ \E scores \in CompanyLists :
         enriched_companies =
            [k \in 1..Len(scores) |-> [ticker |-> TickerNames[k], score |-> scores[k]]]
    /\ portfolio_size \in 1..MaxPortfolioSize
    /\ risk_tolerance \in RiskCeilings
    /\ sorted_companies = <<>>
    /\ i = 0
    /\ pc = "sort"
    /\ exception = ""
    /\ portfolios = <<>>
    /\ recommended_portfolio = None
    /\ requests = <<>>
    /\ queried = <<>>
    /\ window_feasible = <<>>
    /\ EnrichIdle
    /\ ExtraIdle

\* investment_portfolio_page, line 56, and the call of line 60.
SortCompanies ==
    /\ pc = "sort"
    /\ sorted_companies' =
          PySortedReverse(enriched_companies,
                          [k \in 1..Len(enriched_companies) |-> enriched_companies[k].score])
    /\ pc' = "select"
    /\ i' = 0
    /\ UNCHANGED enrichVars
    /\ UNCHANGED extraVars
    /\ UNCHANGED <<enriched_companies, portfolio_size, risk_tolerance, portfolios,
                   recommended_portfolio, requests, queried, window_feasible, exception>>

\* One iteration of the loop whose GET succeeds: lines 146-167.
Window ==
    /\ pc = "select"
    /\ i \in WindowOffsets(sorted_companies, portfolio_size)
    /\ LET tickers == WindowTickers(sorted_companies, i, portfolio_size)
       IN \E data \in Responses[Len(tickers)] :
            LET sorted_portfolio == SortByReturn(FilterByRisk(data, risk_tolerance))
            IN  /\ requests' = Append(requests, TickersParam(tickers))
                /\ queried' = Append(queried, i)
                /\ window_feasible' = Append(window_feasible, HasFeasible(data, risk_tolerance))
                /\ IF HasPositiveReturn(sorted_portfolio)
                   THEN /\ recommended_portfolio' =
                              MakePortfolio(tickers, sorted_portfolio[1], sorted_companies,
                                            i, portfolio_size)
                        /\ portfolios' = data
                        /\ pc' = "returned"
                        /\ i' = i
                   ELSE /\ i' = i + 1
                        /\ UNCHANGED <<recommended_portfolio, portfolios, pc>>
    /\ UNCHANGED enrichVars
    /\ UNCHANGED extraVars
    /\ UNCHANGED <<enriched_companies, sorted_companies, portfolio_size, risk_tolerance,
                   exception>>

\* A failed GET that is swallowed, the loop going on to the next window.
WindowSkipsFailure ==
    /\ pc = "select"
    /\ i \in WindowOffsets(sorted_companies, portfolio_size)
    /\ requests' = Append(requests,
                          TickersParam(WindowTickers(sorted_companies, i, portfolio_size)))
    /\ queried' = Append(queried, i)
    /\ i' = i + 1
    /\ UNCHANGED enrichVars
    /\ UNCHANGED extraVars
    /\ UNCHANGED <<enriched_companies, sorted_companies, portfolio_size, risk_tolerance,
                   pc, exception, portfolios, recommended_portfolio, window_feasible>>

\* One iteration whose GET fails: raise_for_status() (line 50) raises, and
\* nothing in get_portfolio_recommendation or its caller catches it.
WindowRaises ==
    /\ pc = "select"
    /\ i \in WindowOffsets(sorted_companies, portfolio_size)
    /\ requests' = Append(requests,
                          TickersParam(WindowTickers(sorted_companies, i, portfolio_size)))
    /\ queried' = Append(queried, i)
    /\ pc' = "raised"
    /\ exception' = "HTTPError"
    /\ UNCHANGED enrichVars
    /\ UNCHANGED extraVars
    /\ UNCHANGED <<enriched_companies, sorted_companies, portfolio_size, risk_tolerance,
                   i, portfolios, recommended_portfolio, window_feasible>>

\* The loop is over: return None (line 169).
ReturnNone ==
    /\ pc = "select"
    /\ i \notin WindowOffsets(sorted_companies, portfolio_size)
    /\ recommended_portfolio' = None
    /\ pc' = "returned"
    /\ UNCHANGED enrichVars
    /\ UNCHANGED extraVars
    /\ UNCHANGED <<enriched_companies, sorted_companies, portfolio_size, risk_tolerance,
                   i, exception, portfolios, requests, queried, window_feasible>>

Next == SortCompanies \/ Window \/ WindowRaises \/ ReturnNone

Spec == Init /\ [][Next]_vars

\* ------------------------------------------------------------------ claims
\* select returned a portfolio / returned None.
ReturnedPortfolio == pc = "returned" /\ recommended_portfolio.kind = "portfolio"
ReturnedNone == pc = "returned" /\ recommended_portfolio = None

\* The offsets the loop may visit, stated from the claim: 0 .. len - size.
OffersWindow(off) == off >= 0 /\ off <= Len(sorted_companies) - portfolio_size
NumWindows == Max(Len(sorted_companies) - portfolio_size + 1, 0)

\* Indices of the records of the returning window's response within the ceiling.
Survivors == {k \in 1..Len(portfolios) : portfolios[k][Len(portfolios[k])] <= risk_tolerance}
\* The first survivor, in response order, of maximum expected return.
BestIndex ==
    CHOOSE k \in Survivors :
        /\ \A j \in Survivors : portfolios[j][1] <= portfolios[k][1]
        /\ \A j \in Survivors : portfolios[j][1] = portfolios[k][1] => k <= j

\* C1: the windows are queried at offsets 0, 1, 2, ... in increasing order,
\* each once and only offsets in 0..len(companies)-portfolio_size; a window
\* that yields a candidate within the ceiling and of positive return is the
\* last one queried, and its result is what is returned.
C1_WindowsInOrderShortCircuit ==
    /\ \A k \in 1..Len(queried) : queried[k] = k - 1 /\ OffersWindow(queried[k])
    /\ \A k \in 1..Len(window_feasible) :
          window_feasible[k] =>
             /\ k = Len(queried)
             /\ ReturnedPortfolio
             /\ recommended_portfolio.companies =
                   [j \in 1..portfolio_size |-> sorted_companies[k - 1 + j]]

C1_Witness ==
    /\ ReturnedPortfolio
    /\ Len(queried) = 2
    /\ NumWindows = 3

\* C2: a returned portfolio has risk <= risk_ceiling and return > 0; a
\* candidate whose risk equals the ceiling is kept (it makes its window
\* return, and competes for the maximum), and the chosen record is never one
\* whose risk exceeds the ceiling, whatever its return.
C2_BothGatesInclusiveCeiling ==
    /\ ReturnedPortfolio =>
          /\ recommended_portfolio.risk <= risk_tolerance
          /\ recommended_portfolio.return > 0
          /\ \A k \in 1..Len(portfolios) :
                portfolios[k][Len(portfolios[k])] = risk_tolerance
                   => recommended_portfolio.return >= portfolios[k][1]
          /\ \E k \in 1..Len(portfolios) :
                /\ portfolios[k][Len(portfolios[k])] <= risk_tolerance
                /\ portfolios[k][1] = recommended_portfolio.return
                /\ portfolios[k][Len(portfolios[k])] = recommended_portfolio.risk
    /\ \A k \in 1..Len(window_feasible) : window_feasible[k] => ReturnedPortfolio

C2_Witness ==
    /\ ReturnedPortfolio
    /\ recommended_portfolio.risk = risk_tolerance
    /\ \E k \in 1..Len(portfolios) :
          /\ portfolios[k][Len(portfolios[k])] > risk_tolerance
          /\ portfolios[k][1] > recommended_portfolio.return

\* C3: select returns None exactly when every window of the full offset range
\* was queried and none held a candidate within the ceiling and of positive
\* return; no exception leaves select unless a GET failed.
C3_NotFoundIffNoFeasibleWindow ==
    /\ ReturnedNone =>
          /\ Len(queried) = NumWindows
          /\ Len(window_feasible) = NumWindows
          /\ \A k \in 1..Len(window_feasible) : ~window_feasible[k]
    /\ ReturnedPortfolio => \E k \in 1..Len(window_feasible) : window_feasible[k]
    /\ pc = "raised" => Len(queried) = Len(window_feasible) + 1

C3_Witness ==
    /\ ReturnedNone
    /\ Len(window_feasible) = 3
    /\ exception = ""

\* C4: the chosen record is the first one, in the response's order, of
\* maximum expected return among the records whose risk is <= risk_ceiling.
C4_MaxReturnFirstOccurrence ==
    ReturnedPortfolio =>
       /\ Survivors # {}
       /\ recommended_portfolio.return = portfolios[BestIndex][1]
       /\ recommended_portfolio.risk = portfolios[BestIndex][Len(portfolios[BestIndex])]
       /\ \A k \in 1..Len(recommended_portfolio.proportions) :
             recommended_portfolio.proportions[k] = portfolios[BestIndex][k + 1]

C4_Witness ==
    /\ ReturnedPortfolio
    /\ \E k \in Survivors :
          /\ k > BestIndex
          /\ portfolios[k][1] = portfolios[BestIndex][1]
          /\ portfolios[k] # portfolios[BestIndex]

\* C5: a returned portfolio has as many tickers, proportions and companies
\* as portfolio_size.
C5_PortfolioLengths ==
    ReturnedPortfolio =>
       /\ Len(recommended_portfolio.tickers) = portfolio_size
       /\ Len(recommended_portfolio.proportions) = portfolio_size
       /\ Len(recommended_portfolio.companies) = portfolio_size

C5_Witness ==
    /\ ReturnedPortfolio
    /\ portfolio_size = MaxPortfolioSize
    /\ Len(recommended_portfolio.proportions) = MaxPortfolioSize

\* Position of a ticker in the enrichment order.
EnrichedPos(t) == CHOOSE k \in 1..Len(enriched_companies) : enriched_companies[k].ticker = t

\* C6: the companies are sorted by score descending, equal scores keeping
\* their enrichment order; the tickers submitted for window i are those of
\* companies[i : i+portfolio_size] in that order; in a returned portfolio
\* tickers[k] is the ticker of companies[k] and proportions[k] the weight at
\* position k+1 of the chosen record.
C6_OrderAndAlignment ==
    /\ pc # "sort" =>
          /\ Len(sorted_companies) = Len(enriched_companies)
          /\ \A k \in 1..Len(enriched_companies) :
                \E j \in 1..Len(sorted_companies) : sorted_companies[j] = enriched_companies[k]
          /\ \A j, k \in 1..Len(sorted_companies) :
                j < k =>
                   \/ sorted_companies[j].score > sorted_companies[k].score
                   \/ /\ sorted_companies[j].score = sorted_companies[k].score
                      /\ EnrichedPos(sorted_companies[j].ticker)
                            < EnrichedPos(sorted_companies[k].ticker)
    /\ \A k \in 1..Len(requests) :
          requests[k] =
             Join([j \in 1..portfolio_size |-> sorted_companies[queried[k] + j].ticker])
    /\ ReturnedPortfolio =>
          \A k \in 1..portfolio_size :
             /\ recommended_portfolio.companies[k] = sorted_companies[i + k]
             /\ recommended_portfolio.tickers[k] = recommended_portfolio.companies[k].ticker
             /\ recommended_portfolio.proportions[k] = portfolios[BestIndex][k + 1]

C6_Witness ==
    /\ ReturnedPortfolio
    /\ i = 1
    /\ portfolio_size = 2
    /\ sorted_companies # enriched_companies
    /\ sorted_companies[2].score = sorted_companies[3].score
    /\ recommended_portfolio.proportions[1] # recommended_portfolio.proportions[2]

\* C7: with fewer companies than portfolio_size, select fails fast with
\* InvalidInputError: no undersized window is submitted, and neither None nor
\* a portfolio is returned.
C7_UndersizedPoolFailsFast ==
    (pc \in {"returned", "raised"} /\ Len(sorted_companies) < portfolio_size) =>
       /\ pc = "raised"
       /\ exception = "InvalidInputError"
       /\ requests = <<>>

\* C9: once the GET of window i fails, the run ends with the exception: the
\* failed GET is the last one, and neither a portfolio nor None is returned.
C9_FailedWindowAborts ==
    Len(queried) > Len(window_feasible) =>
       /\ pc = "raised"
       /\ exception = "HTTPError"
       /\ Len(queried) = Len(window_feasible) + 1
       /\ \A k \in 1..Len(window_feasible) : ~window_feasible[k]

C9_Witness ==
    /\ pc = "raised"
    /\ Len(queried) = 2
    /\ NumWindows = 3

\* The companies of the caller's list that enrich_companies_data has updated.
EnrichedIndices ==
    {k \in 1..Len(initial_companies_data) : "e_score" \in DOMAIN initial_companies_data[k]}

\* C8: if a per-company lookup raises, enrich_companies_data does not return
\* None (or anything else) normally: the failure reaches the caller as an
\* EnrichmentError, and no company of the caller's list is left enriched.
C8_EnrichFailurePropagates ==
    lookup_raised =>
       /\ enrich_return = Pending
       /\ pc = "raised"
       /\ exception = "EnrichmentError"
       /\ EnrichedIndices = {}

\* The companies whose ticker has no ESG data upstream, once enriched.
EnrichedWithoutData ==
    {k \in EnrichedIndices : ~HasEsgData(upstream[initial_companies_data[k].ticker])}

CallDone(fn) == call.fn = fn /\ pc \in {"returned", "raised"}

\* The inputs Python holds equal to the integer n: n itself, the float n.0
\* and, for 0 and 1, the bools.
EqualTo(n) ==
    {PyInt(n), HalfFloat(n + n)}
       \cup (IF n = 1 THEN {PyBool(TRUE)} ELSE IF n = 0 THEN {PyBool(FALSE)} ELSE {})

\* C11: get_accepted_controversies_count returns +infinity for the thresholds
\* 1 and 2, 3 for 3, 2 for 4 and 1 for 5; for every other input it raises
\* (ValueError, the code's invalid-input error) and returns no value.
C11_ControversyTable ==
    CallDone("get_accepted_controversies_count") =>
       LET x == call.controversy_threshold
       IN  IF x \in EqualTo(1) \cup EqualTo(2) THEN call_result = Returns_(Inf)
           ELSE IF x \in EqualTo(3) THEN call_result = Returns_(PyInt(3))
           ELSE IF x \in EqualTo(4) THEN call_result = Returns_(PyInt(2))
           ELSE IF x \in EqualTo(5) THEN call_result = Returns_(PyInt(1))
           ELSE /\ pc = "raised"
                /\ exception = "ValueError"
                /\ call_result.kind = "raise"
                /\ call_result.message.value = x

C11_Witness ==
    /\ CallDone("get_accepted_controversies_count")
    /\ call.controversy_threshold = PyInt(5)
    /\ call_result = Returns_(PyInt(1))

\* Same witness shape for an input off the scale.
C11_WitnessRaises ==
    /\ CallDone("get_accepted_controversies_count")
    /\ call.controversy_threshold = PyInt(6)
    /\ pc = "raised"

HasAllScores == {"e_score", "s_score", "g_score"} \subseteq DOMAIN call.company

\* C13: get_preference_score returns w_e*e_score + w_s*s_score + w_g*g_score
\* for a company with the three sub-scores and weights in 1..5 (30 for the
\* weights 1, 1, 1 and e = s = g = 10); with a sub-score absent it raises
\* (KeyError) and returns no value.
C13_WeightedSum ==
    CallDone("get_preference_score") =>
       IF HasAllScores
       THEN /\ pc = "returned"
            /\ call_result.kind = "return"
            /\ call_result.value =
                  call.survey_answers.USER_E_WEIGHT * call.company.e_score
                     + call.survey_answers.USER_S_WEIGHT * call.company.s_score
                     + call.survey_answers.USER_G_WEIGHT * call.company.g_score
            /\ (/\ call.survey_answers =
                      [USER_E_WEIGHT |-> 1, USER_S_WEIGHT |-> 1, USER_G_WEIGHT |-> 1]
                /\ call.company.e_score = 10
                /\ call.company.s_score = 10
                /\ call.company.g_score = 10) => call_result.value = 30
       ELSE /\ pc = "raised"
            /\ exception = "KeyError"
            /\ call_result.kind = "raise"

C13_Witness ==
    /\ CallDone("get_preference_score")
    /\ HasAllScores
    /\ call.survey_answers = [USER_E_WEIGHT |-> 5, USER_S_WEIGHT |-> 1, USER_G_WEIGHT |-> 3]
    /\ call.company.e_score = 10
    /\ call.company.s_score = 40
    /\ call.company.g_score = 0
    /\ call_result = Returns_(90)

\* The companies whose ticker has ESG data upstream, once enriched.
EnrichedWithData ==
    {k \in EnrichedIndices : HasEsgData(upstream[initial_companies_data[k].ticker])}

\* C14: for a ticker with ESG data, get_e_score, get_s_score and get_g_score
\* return 40 minus the raw risk the data source reports, for every raw risk
\* in 0..40 (so raw risk 0 gives 40), and the result lies in 0..40.
C14_ScoreIsFortyMinusRawRisk ==
    \A k \in EnrichedWithData :
       LET raw == upstream[initial_companies_data[k].ticker].sustainability.esgScores
           c == initial_companies_data[k]
       IN  /\ c.e_score = 40 - raw.environmentScore
           /\ c.s_score = 40 - raw.socialScore
           /\ c.g_score = 40 - raw.governanceScore
           /\ {c.e_score, c.s_score, c.g_score} \subseteq 0..40

\* C15: app.py routes a run whose menu choice is Profile to the investment
\* portfolio page when answers is in the session state, and to the page
\* mapped to the menu choice in every other case; so from the run after a
\* submitted profile on, no run renders the profile form and the stored
\* answers stay as they are.
C15_RoutingAfterSubmit ==
    [][/\ rendered' = IF choice' = "Profile" /\ session_state.answers # None
                      THEN "investment_portfolio_page"
                      ELSE DictGet(menu, choice')
       /\ session_state.answers # None =>
             /\ rendered' # "profile_page"
             /\ session_state'.answers = session_state.answers]_vars

\* A run with the menu on Profile rendered the investment portfolio page.
C15_Witness ==
    /\ session_state.answers # None
    /\ choice = "Profile"
    /\ rendered = "investment_portfolio_page"

\* C16: the answers profile_page stores are valid inputs: the risk tolerance
\* is Low, Moderate or High and every slider answer an int in 1..5, so that
\* map_risk_level and get_accepted_controversies_count return on them and a
\* run of investment_portfolio_page never ends with their ValueError.
C16_StoredAnswersAreValid ==
    session_state.answers # None =>
        LET answers == session_state.answers.survey_answers
        IN  /\ answers[USER_RISK_TOLERANCE] \in Range(risk_options)
            /\ \A k \in Range(question_keys) :
                  answers[k] \in {PyInt(n) : n \in 1..5}
            /\ map_risk_level(answers[USER_RISK_TOLERANCE]).kind = "return"
            /\ get_accepted_controversies_count(
                   answers[USER_CONTROVERSY_THRESHOLD]).kind = "return"
            /\ exception # "ValueError"

\* investment_portfolio_page ran to its end on stored answers whose
\* controversy threshold is the slider's first option.
C16_Witness ==
    /\ session_state.answers # None
    /\ session_state.answers.survey_answers[USER_CONTROVERSY_THRESHOLD] = PyInt(1)
    /\ rendered = "investment_portfolio_page"
    /\ session_state.recommended_portfolio
    /\ exception = ""

====
